---------------------------- MODULE Spec2Model ----------------------------
(***************************************************************************)
(* A model of the brainfuck pipeline of src/src/main.rs:                   *)
(*   compile (bytes -> instruction tree, with bracket diagnostics),        *)
(*   optimize (folding of adjacent Move / IncValue instructions),          *)
(*   Interpreter::run (tree walk over a 30000-cell tape).                  *)
(*                                                                         *)
(* Representation choices.                                                 *)
(*  - A source is a sequence of one-character strings (its bytes).         *)
(*  - A Token is a tuple: <<"Output">>, <<"Input">>, <<"Move", v>>,        *)
(*    <<"IncValue", v>>, <<"Loop", body>>.                                 *)
(*  - A usize value is written as the integer that has the same 64-bit     *)
(*    pattern read as two's complement: 0 .. 2^63-1 stand for themselves   *)
(*    and a negative integer r stands for 2^64 + r.  Wrapping usize        *)
(*    arithmetic is then ordinary integer arithmetic (all magnitudes of    *)
(*    the model are far below 2^63), and only the comparisons and the      *)
(*    overflow tests need the unsigned reading (ULt, UGe).                 *)
(*  - The tape is kept sparse: a function from the indices of the nonzero  *)
(*    cells to their values; every other cell of vec![0; MEMORY_SIZE] is 0.*)
(*  - Arithmetic that overflows a usize panics in a build with overflow    *)
(*    checks and wraps in a build without them; both outcomes are kept.    *)
(***************************************************************************)
EXTENDS Integers, Sequences, FiniteSets, TLC

VARIABLES
    src,      \* the source text handed to compile (main.rs:224,234)
    pc,       \* where main is: "compile", "optimize", "run", "done", "exit1", "panic"
    idx,      \* number of bytes the iterator `bytes` has yielded so far
    scan,     \* the state of the (recursive) compile calls, with its diagnostic
    tokens,   \* main's `tokens`: compile's result, then optimize's result
    vm,       \* the Interpreter and its position in `tokens`
    stream,   \* what standard input has delivered so far, one item per read
    ref       \* a second, fresh Interpreter running compile's result unoptimized

vars == <<src, pc, idx, scan, tokens, vm, stream, ref>>

(***************************************************************************)
(* Program constants and model bounds                                      *)
(***************************************************************************)
MEMORY_SIZE == 30000

\* longest source over the bracket alphabet
MaxLen == 6
\* longest source over the full alphabet
MaxFull == 3
\* instructions one interpreter executes before the model stops following it
MaxSteps == 60
\* instructions the unoptimized run executes before the model stops following it
MaxRefSteps == 30010
\* items standard input delivers before it is at end of file for good
MaxIn == 2

(***************************************************************************)
(* Tokens (enum Token)                                                     *)
(***************************************************************************)
Output == <<"Output">>
Input == <<"Input">>
Move(v) == <<"Move", v>>
IncValue(v) == <<"IncValue", v>>
Loop(body) == <<"Loop", body>>

Kind(t) == t[1]


Last(s) == s[Len(s)]
Front(s) == SubSeq(s, 1, Len(s) - 1)

(***************************************************************************)
(* compile (main.rs:112-171).  The recursion of compile is kept as the     *)
(* sequence `calls` of the local `tokens` vectors of the active calls, the *)
(* outermost first: the parameter `level` of the running call is           *)
(* Len(calls) - 1.  `stack`, `line` and `position` are the &mut parameters *)
(* shared by all calls.                                                    *)
(***************************************************************************)
NoDiag == <<"none", 0, 0>>

\* main.rs:234: compile(data.as_bytes().iter(), 0, &mut Vec::new(), &mut 1, &mut 1)
InitScan ==
    [calls |-> << <<>> >>, stack |-> <<>>, line |-> 1, position |-> 1,
     status |-> "scanning", diag |-> NoDiag]

Level(st) == Len(st.calls) - 1

\* tokens.push(t) in the running call
PushToken(calls, t) ==
    [calls EXCEPT ![Len(calls)] = Append(@, t)]

\* '<' given the delta of '>'
SimpleTokenSameSign(byte) ==
    CASE byte = ">" -> Move(1)
      [] byte = "<" -> Move(1)
      [] byte = "+" -> IncValue(1)
      [] byte = "-" -> IncValue(-1)
      [] byte = "." -> Output
      [] byte = "," -> Input

SimpleToken(byte) ==
    CASE byte = ">" -> Move(1)
      [] byte = "<" -> Move(-1)
      [] byte = "+" -> IncValue(1)
      [] byte = "-" -> IncValue(-1)
      [] byte = "." -> Output
      [] byte = "," -> Input

SimpleBytes == {">", "<", "+", "-", ".", ","}

\* ScanByte without the level test of main.rs:143: a ']' at level 0 is passed
\* over like a comment byte
ScanByteNoLevelTest(st, byte) ==
    IF st.status # "scanning" THEN st
    ELSE IF byte = "\n" THEN
        [st EXCEPT !.line = @ + 1, !.position = 0 + 1]
    ELSE IF byte \in SimpleBytes THEN
        [st EXCEPT !.calls = PushToken(@, SimpleToken(byte)),
                   !.position = @ + 1]
    ELSE IF byte = "[" THEN
        [st EXCEPT !.stack = Append(@, <<"[", st.line, st.position>>),
                   !.calls = Append(@, <<>>)]
    ELSE IF byte = "]" /\ Level(st) > 0 THEN
        [st EXCEPT !.stack = Append(@, <<"]", st.line, st.position>>),
                   !.calls = PushToken(Front(@), Loop(Last(@))),
                   !.position = @ + 1]
    ELSE
        [st EXCEPT !.position = @ + 1]

\* ScanByte without the push of main.rs:150: a ']' that ends a loop leaves no
\* entry on the position stack
ScanByteNoClosePush(st, byte) ==
    IF st.status # "scanning" THEN st
    ELSE IF byte = "\n" THEN
        [st EXCEPT !.line = @ + 1, !.position = 0 + 1]
    ELSE IF byte \in SimpleBytes THEN
        [st EXCEPT !.calls = PushToken(@, SimpleToken(byte)),
                   !.position = @ + 1]
    ELSE IF byte = "[" THEN
        [st EXCEPT !.stack = Append(@, <<"[", st.line, st.position>>),
                   !.calls = Append(@, <<>>)]
    ELSE IF byte = "]" THEN
        IF Level(st) = 0 THEN
            [st EXCEPT !.status = "exit1",
                       !.diag = <<"closed", st.line, st.position>>]
        ELSE
            [st EXCEPT !.calls = PushToken(Front(@), Loop(Last(@))),
                       !.position = @ + 1]
    ELSE
        [st EXCEPT !.position = @ + 1]

\* One iteration of the loop at main.rs:121-168 for a byte the iterator yields.
\* A '[' enters the recursive call without passing line 167; the ']' that ends
\* the call returns at line 151, and the caller then pushes the Loop and runs
\* its own line 167.
ScanByte(st, byte) ==
    IF st.status # "scanning" THEN st
    ELSE IF byte = "\n" THEN
        [st EXCEPT !.line = @ + 1, !.position = 0 + 1]
    ELSE IF byte \in SimpleBytes THEN
        [st EXCEPT !.calls = PushToken(@, SimpleToken(byte)),
                   !.position = @ + 1]
    ELSE IF byte = "[" THEN
        [st EXCEPT !.stack = Append(@, <<"[", st.line, st.position>>),
                   !.calls = Append(@, <<>>)]
    ELSE IF byte = "]" THEN
        IF Level(st) = 0 THEN
            [st EXCEPT !.status = "exit1",
                       !.diag = <<"closed", st.line, st.position>>]
        ELSE
            [st EXCEPT !.stack = Append(@, <<"]", st.line, st.position>>),
                       !.calls = PushToken(Front(@), Loop(Last(@))),
                       !.position = @ + 1]
    ELSE
        [st EXCEPT !.position = @ + 1]

\* search_extra_loop (main.rs:92-110); `level` is its local counter.
RECURSIVE SearchFrom(_, _)

\* SearchFrom without the level count: the first '[' popped is returned
SearchFromFirstOpen(stack, level) ==
    IF stack = <<>> THEN
        [outcome |-> "panic", line |-> 0, position |-> 0, stack |-> stack]
    ELSE
        LET values == Last(stack)
            rest == Front(stack)
        IN  IF values[1] = "[" THEN
                [outcome |-> "return", line |-> values[2],
                 position |-> values[3], stack |-> rest]
            ELSE IF values[1] = "]" THEN SearchFrom(rest, level)
            ELSE [outcome |-> "panic", line |-> 0, position |-> 0, stack |-> rest]

SearchFrom(stack, level) ==
    IF stack = <<>> THEN
        [outcome |-> "panic", line |-> 0, position |-> 0, stack |-> stack]
    ELSE
        LET values == Last(stack)
            rest == Front(stack)
        IN  IF values[1] = "[" THEN
                IF level = 0 THEN
                    [outcome |-> "return", line |-> values[2],
                     position |-> values[3], stack |-> rest]
                ELSE SearchFrom(rest, level - 1)
            ELSE IF values[1] = "]" THEN SearchFrom(rest, level + 1)
            ELSE [outcome |-> "panic", line |-> 0, position |-> 0, stack |-> rest]

search_extra_loop(stack) == SearchFrom(stack, 0)

\* The iterator is exhausted (main.rs:156-166).
ScanEof(st) ==
    IF st.status # "scanning" THEN st
    ELSE IF Level(st) > 0 THEN
        LET r == search_extra_loop(st.stack)
        IN  IF r.outcome = "return" THEN
                [st EXCEPT !.stack = r.stack, !.status = "exit1",
                           !.diag = <<"opened", r.line, r.position>>]
            ELSE [st EXCEPT !.stack = r.stack, !.status = "panic"]
    ELSE [st EXCEPT !.status = "returned"]

\* The loop of compile over the bytes lo..hi of s, from scan state st.  The
\* bytes are taken in order; the range is halved only to keep the evaluation
\* shallow.  Nothing is scanned after process::exit.
RECURSIVE ScanRange(_, _, _, _)
ScanRange(s, lo, hi, st) ==
    IF lo > hi THEN st
    ELSE IF lo = hi THEN ScanByte(st, s[lo])
    ELSE LET mid == (lo + hi) \div 2
             left == ScanRange(s, lo, mid, st)
         IN  IF left.status # "scanning" THEN left
             ELSE ScanRange(s, mid + 1, hi, left)

\* compile run to its end on the whole source: the final scan state.
Compile(s) == ScanEof(ScanRange(s, 1, Len(s), InitScan))

(***************************************************************************)
(* optimize (main.rs:173-196)                                              *)
(***************************************************************************)
RECURSIVE Optimize(_)

\* OptPush folding only a token equal to the last one pushed
OptPushEqualOnly(optimized, token) ==
    IF Kind(token) = "Loop" THEN
        Append(optimized, Loop(Optimize(token[2])))
    ELSE IF /\ optimized # <<>>
            /\ Last(optimized) = token
            /\ Kind(token) \in {"IncValue", "Move"} THEN
        Append(Front(optimized), <<Kind(token), Last(optimized)[2] + token[2]>>)
    ELSE Append(optimized, token)

\* OptPush pushing a Loop as it is, its body not optimized
OptPushShallow(optimized, token) ==
    IF Kind(token) = "Loop" THEN Append(optimized, token)
    ELSE IF /\ optimized # <<>>
            /\ Kind(Last(optimized)) = "IncValue"
            /\ Kind(token) = "IncValue" THEN
        Append(Front(optimized), IncValue(Last(optimized)[2] + token[2]))
    ELSE IF /\ optimized # <<>>
            /\ Kind(Last(optimized)) = "Move"
            /\ Kind(token) = "Move" THEN
        Append(Front(optimized), Move(Last(optimized)[2] + token[2]))
    ELSE Append(optimized, token)

\* OptPush dropping a folded instruction whose delta has become zero
OptPushDropsZero(optimized, token) ==
    IF Kind(token) = "Loop" THEN
        Append(optimized, Loop(Optimize(token[2])))
    ELSE IF /\ optimized # <<>>
            /\ Kind(Last(optimized)) = Kind(token)
            /\ Kind(token) \in {"IncValue", "Move"} THEN
        IF Last(optimized)[2] + token[2] = 0 THEN Front(optimized)
        ELSE Append(Front(optimized),
                    <<Kind(token), Last(optimized)[2] + token[2]>>)
    ELSE Append(optimized, token)

\* the match of main.rs:177-193 for one token
OptPush(optimized, token) ==
    IF Kind(token) = "Loop" THEN
        Append(optimized, Loop(Optimize(token[2])))
    ELSE IF /\ optimized # <<>>
            /\ Kind(Last(optimized)) = "IncValue"
            /\ Kind(token) = "IncValue" THEN
        Append(Front(optimized), IncValue(Last(optimized)[2] + token[2]))
    ELSE IF /\ optimized # <<>>
            /\ Kind(Last(optimized)) = "Move"
            /\ Kind(token) = "Move" THEN
        Append(Front(optimized), Move(Last(optimized)[2] + token[2]))
    ELSE Append(optimized, token)

\* the for loop of main.rs:176-194 over the tokens lo..hi, in order; the range
\* is halved only to keep the evaluation shallow, and the left half is
\* evaluated (its length taken) before the right half starts from it
RECURSIVE OptRange(_, _, _, _)
OptRange(toks, lo, hi, optimized) ==
    IF lo > hi THEN optimized
    ELSE IF lo = hi THEN OptPush(optimized, toks[lo])
    ELSE LET mid == (lo + hi) \div 2
             left == OptRange(toks, lo, mid, optimized)
         IN  IF Len(left) = 0 THEN OptRange(toks, mid + 1, hi, <<>>)
             ELSE OptRange(toks, mid + 1, hi, left)

Optimize(toks) == OptRange(toks, 1, Len(toks), <<>>)


(***************************************************************************)
(* Interpreter (main.rs:10-74).  The recursion of run is kept as `frames`: *)
(* frames[k] is the index, in the token vector the k-th nested run call    *)
(* iterates, of the token that call is at (for k below the top: the Loop   *)
(* whose body the next call runs).                                         *)
(***************************************************************************)

\* unsigned order of two usize values
ULt(a, b) ==
    IF (a < 0) = (b < 0) THEN a < b ELSE b < 0

\* index i is inside Vec memory (len MEMORY_SIZE)
InBounds(i) == 0 <= i /\ i < MEMORY_SIZE

Cell(memory, i) == IF i \in DOMAIN memory THEN memory[i] ELSE 0

Store(memory, i, byte) ==
    IF byte = 0 THEN [j \in DOMAIN memory \ {i} |-> memory[j]]
    ELSE [j \in DOMAIN memory \cup {i} |-> IF j = i THEN byte ELSE memory[j]]

\* impl Default for Interpreter (main.rs:67-74), before run is called
NewInterpreter ==
    [memory |-> <<>>, dp |-> 0, frames |-> <<1>>, out |-> <<>>, rd |-> 0,
     steps |-> 0, status |-> "idle"]

\* the token vector the innermost run call iterates
RECURSIVE TokensAt(_, _)
TokensAt(tree, frames) ==
    IF Len(frames) <= 1 THEN tree
    ELSE TokensAt(tree[frames[1]][2], Tail(frames))

AtEnd(tree, m) == Last(m.frames) > Len(TokensAt(tree, m.frames))

Current(tree, m) == TokensAt(tree, m.frames)[Last(m.frames)]

\* the for loop of run moves to the next token
Advance(m) ==
    [m EXCEPT !.frames[Len(m.frames)] = @ + 1, !.steps = @ + 1]

Panicked(m) == [m EXCEPT !.status = "panic", !.steps = @ + 1]

\* ExecOutput as println! would write: a line feed after the character
ExecOutputLine(m) ==
    IF ~InBounds(m.dp) THEN Panicked(m)
    ELSE Advance([m EXCEPT !.out = Append(Append(@, Cell(m.memory, m.dp)), 10)])

\* Token::Output (main.rs:24); a cell value is written as the char of that code
ExecOutput(m) ==
    IF ~InBounds(m.dp) THEN Panicked(m)
    ELSE Advance([m EXCEPT !.out = Append(@, Cell(m.memory, m.dp))])

\* ReadInput with end of file reported as an error
ReadInputEofFails(item) ==
    IF item[1] \in {"err", "eof"} THEN [ok |-> FALSE, data |-> 0]
    ELSE [ok |-> TRUE, data |-> item[2]]

\* read_input (main.rs:76-81) for what the environment does at this read:
\* <<"byte", b>> one byte read, <<"eof">> zero bytes read (input stays [0]),
\* <<"err">> the flush or the read fails
ReadInput(item) ==
    IF item[1] = "err" THEN [ok |-> FALSE, data |-> 0]
    ELSE IF item[1] = "eof" THEN [ok |-> TRUE, data |-> 0]
    ELSE [ok |-> TRUE, data |-> item[2]]

\* ExecInput storing the byte in cell 0 in place of the cell under the pointer
ExecInputFirstCell(m, item) ==
    LET r == ReadInput(item)
        n == [m EXCEPT !.rd = @ + 1]
    IN  IF ~r.ok THEN [n EXCEPT !.status = "exit1", !.steps = @ + 1]
        ELSE IF ~InBounds(m.dp) THEN Panicked(n)
        ELSE Advance([n EXCEPT !.memory = Store(@, 0, r.data)])

\* ExecInput going on after a failed read, the cell set to 0
ExecInputIgnoresError(m, item) ==
    LET r == ReadInput(item)
        n == [m EXCEPT !.rd = @ + 1]
    IN  IF ~InBounds(m.dp) THEN Panicked(n)
        ELSE Advance([n EXCEPT !.memory = Store(@, m.dp, r.data)])

\* Token::Input (main.rs:25-36): the value is computed, then the cell indexed
ExecInput(m, item) ==
    LET r == ReadInput(item)
        n == [m EXCEPT !.rd = @ + 1]
    IN  IF ~r.ok THEN [n EXCEPT !.status = "exit1", !.steps = @ + 1]
        ELSE IF ~InBounds(m.dp) THEN Panicked(n)
        ELSE Advance([n EXCEPT !.memory = Store(@, m.dp, r.data)])

\* usize::checked_add_signed: the sum as a usize, or None
CheckedAddSigned(dp, v) ==
    IF dp >= 0 THEN IF dp + v < 0 THEN <<"None">> ELSE <<"Some", dp + v>>
    ELSE IF dp + v >= 0 THEN <<"None">> ELSE <<"Some", dp + v>>

\* a - b on usize: the outcomes of a build with overflow checks (panic) and of
\* one without (wrap) when b > a, the difference otherwise
USub(a, b) ==
    IF ULt(a, b) THEN {<<"panic">>, <<"ok", a - b>>} ELSE {<<"ok", a - b>>}

\* Token::Move (main.rs:37-53): the data pointers it can leave, or <<"panic">>
MoveOutcomes(dp, v) ==
    LET sum == CheckedAddSigned(dp, v)
    IN  IF sum[1] = "Some" THEN
            IF ~ULt(sum[2], MEMORY_SIZE) THEN {<<"ok", sum[2] - MEMORY_SIZE>>}
            ELSE {<<"ok", sum[2]>>}
        ELSE
            LET negv == 0 - v
                first == USub(negv, dp)
            IN  UNION { IF a[1] = "panic" THEN {a} ELSE USub(MEMORY_SIZE, a[2])
                        : a \in first }

ExecMove(m, v) ==
    { IF o[1] = "panic" THEN Panicked(m) ELSE Advance([m EXCEPT !.dp = o[2]])
      : o \in MoveOutcomes(m.dp, v) }

\* a saturating conversion in place of the truncating one
AsI8Saturating(v) == IF v > 127 THEN 127 ELSE IF v < -128 THEN -128 ELSE v

\* `v as i8`: the low 8 bits, read as signed
AsI8(v) == ((v + 128) % 256) - 128

\* u8::wrapping_add_signed
WrappingAddSigned(byte, d) == (byte + d) % 256

\* Token::IncValue (main.rs:54-56)
ExecIncValue(m, v) ==
    IF ~InBounds(m.dp) THEN Panicked(m)
    ELSE Advance([m EXCEPT !.memory =
             Store(@, m.dp, WrappingAddSigned(Cell(m.memory, m.dp), AsI8(v)))])

\* ExecLoop testing the first cell of the tape, where the pointer was when the
\* program started, in place of the cell under the pointer
ExecLoopTestsFirstCell(m) ==
    IF ~InBounds(m.dp) THEN Panicked(m)
    ELSE IF Cell(m.memory, 0) # 0 THEN
        [m EXCEPT !.frames = Append(@, 1), !.steps = @ + 1]
    ELSE Advance(m)

\* Token::Loop (main.rs:57-61): the while test, then either a call of run on
\* the body or the next token
ExecLoop(m) ==
    IF ~InBounds(m.dp) THEN Panicked(m)
    ELSE IF Cell(m.memory, m.dp) # 0 THEN
        [m EXCEPT !.frames = Append(@, 1), !.steps = @ + 1]
    ELSE Advance(m)

\* ExecReturn for `if` in place of `while` at main.rs:58: the end of the body
\* leads to the token after the Loop
ExecReturnPastLoop(m) ==
    IF Len(m.frames) = 1 THEN [m EXCEPT !.status = "done", !.steps = @ + 1]
    ELSE [m EXCEPT !.frames = [Front(@) EXCEPT ![Len(@) - 1] = @ + 1],
                   !.steps = @ + 1]

\* the for loop of a run call is exhausted: run returns, to the while test of
\* the calling Loop or, for the outermost call, to main
ExecReturn(m) ==
    IF Len(m.frames) = 1 THEN [m EXCEPT !.status = "done", !.steps = @ + 1]
    ELSE [m EXCEPT !.frames = Front(@), !.steps = @ + 1]

\* what the next read of standard input can deliver to an interpreter that has
\* made rd reads: what an earlier read of the same position got, or anything
InputBytes == {1, 5, 255}
InputItems == {<<"byte", b>> : b \in InputBytes} \cup {<<"eof">>, <<"err">>}

ItemsFor(str, rd) ==
    IF rd < Len(str) THEN {str[rd + 1]}
    ELSE IF rd >= MaxIn THEN {<<"eof">>}
    ELSE InputItems

DeliveredTo(str, rd, item) ==
    IF rd = Len(str) /\ rd < MaxIn THEN Append(str, item) ELSE str

ItemsAt(rd) == ItemsFor(stream, rd)

Delivered(rd, item) == DeliveredTo(stream, rd, item)

\* one step of run on `tree` from interpreter state m, for the item the next
\* read would get: the interpreter states it can lead to
Step(tree, m, item) ==
    IF AtEnd(tree, m) THEN {ExecReturn(m)}
    ELSE LET token == Current(tree, m)
         IN  CASE Kind(token) = "Output" -> {ExecOutput(m)}
               [] Kind(token) = "Input" -> {ExecInput(m, item)}
               [] Kind(token) = "Move" -> ExecMove(m, token[2])
               [] Kind(token) = "IncValue" -> {ExecIncValue(m, token[2])}
               [] Kind(token) = "Loop" -> {ExecLoop(m)}


(***************************************************************************)
(* Sources                                                                 *)
(***************************************************************************)
Rep(byte, n) == [i \in 1..n |-> byte]

SeqsUpTo(S, n) == UNION {[1..k -> S] : k \in 0..n}

BracketBytes == {"[", "]", "\n", "+"}
FullBytes == {">", "<", "+", "-", ".", ",", "[", "]", "\n", "x"}

\* "+++.", "++++++++[>++++++++<-]>+.", "+[]", ","
NamedSources ==
    { <<"+", "+", "+", ".">>,
      Rep("+", 8) \o <<"[", ">">> \o Rep("+", 8) \o <<"<", "-", "]", ">", "+", ".">>,
      <<"+", "[", "]">>,
      <<",">> }

Sources ==
    SeqsUpTo(BracketBytes, MaxLen) \cup SeqsUpTo(FullBytes, MaxFull)
        \cup NamedSources

(***************************************************************************)
(* The pipeline of main (main.rs:216-237), from the source text on         *)
(***************************************************************************)
Init ==
    /\ src \in Sources
    /\ pc = "compile"
    /\ idx = 0
    /\ scan = InitScan
    /\ tokens = <<>>
    /\ vm = NewInterpreter
    /\ stream = <<>>
    /\ ref = NewInterpreter

\* bytes.next() yields a byte of the given class and the loop body runs on it
ScanStep(class) ==
    /\ pc = "compile"
    /\ idx < Len(src)
    /\ src[idx + 1] \in class
    /\ idx' = idx + 1
    /\ scan' = ScanByte(scan, src[idx + 1])
    /\ pc' = IF scan'.status = "exit1" THEN "exit1" ELSE "compile"
    /\ UNCHANGED <<src, tokens, vm, stream, ref>>

ScanNewline == pc = "compile" /\ ScanStep({"\n"})

ScanSimple == pc = "compile" /\ ScanStep(SimpleBytes)

ScanOpen == pc = "compile" /\ ScanStep({"["})

ScanCloseLoop == Level(scan) > 0 /\ ScanStep({"]"})

ScanCloseError == Level(scan) = 0 /\ ScanStep({"]"})

ScanOther ==
    pc = "compile" /\ ScanStep(FullBytes \ (SimpleBytes \cup {"[", "]", "\n"}))

\* the outermost call's `tokens` is moved out to the caller when it returns
Returned(st) ==
    IF st.status = "returned" THEN [st EXCEPT !.calls = <<>>] ELSE st

\* bytes.next() is None
ScanEnd ==
    /\ pc = "compile"
    /\ idx = Len(src)
    /\ scan' = Returned(ScanEof(scan))
    /\ pc' = IF scan'.status = "returned" THEN "optimize" ELSE scan'.status
    /\ tokens' = IF scan'.status = "returned" THEN ScanEof(scan).calls[1]
                 ELSE tokens
    /\ UNCHANGED <<src, idx, vm, stream, ref>>

ScanEndReturn == Level(scan) = 0 /\ ScanEnd

ScanEndOpen == Level(scan) > 0 /\ ScanEnd

\* main.rs:234-236: optimize, then interpreter.run(&tokens) is entered
OptimizeTokens ==
    /\ pc = "optimize"
    /\ tokens' = Optimize(tokens)
    /\ vm' = [vm EXCEPT !.status = "running"]
    /\ pc' = "run"
    /\ UNCHANGED <<src, idx, scan, stream, ref>>

\* one step of interpreter.run(&tokens) at a token of the given kind, for the
\* item a read would get
RunStep(kind, item) ==
    /\ pc = "run"
    /\ vm.steps < MaxSteps
    /\ ~AtEnd(tokens, vm)
    /\ Kind(Current(tokens, vm)) = kind
    /\ vm' \in Step(tokens, vm, item)
    /\ pc' = IF vm'.status = "running" THEN "run" ELSE vm'.status
    /\ UNCHANGED <<src, idx, scan, tokens, ref>>

RunOutput == RunStep("Output", <<"eof">>) /\ UNCHANGED stream

RunInput ==
    \E item \in ItemsAt(vm.rd) :
        RunStep("Input", item) /\ stream' = Delivered(vm.rd, item)

RunMove == RunStep("Move", <<"eof">>) /\ UNCHANGED stream

RunIncValue == RunStep("IncValue", <<"eof">>) /\ UNCHANGED stream

RunLoop == RunStep("Loop", <<"eof">>) /\ UNCHANGED stream

RunReturn ==
    /\ pc = "run"
    /\ vm.steps < MaxSteps
    /\ AtEnd(tokens, vm)
    /\ vm' = ExecReturn(vm)
    /\ pc' = IF vm'.status = "running" THEN "run" ELSE vm'.status
    /\ UNCHANGED <<src, idx, scan, tokens, stream, ref>>

Next ==
    \/ ScanNewline
    \/ ScanSimple
    \/ ScanOpen
    \/ ScanCloseLoop
    \/ ScanCloseError
    \/ ScanOther
    \/ ScanEndReturn
    \/ ScanEndOpen
    \/ OptimizeTokens
    \/ RunOutput
    \/ RunInput
    \/ RunMove
    \/ RunIncValue
    \/ RunLoop
    \/ RunReturn

Spec == Init /\ [][Next]_vars


(***************************************************************************)
(* The interpreter alone: main just before interpreter.run(&tokens), for   *)
(* sources too long to follow byte by byte.  compile and optimize have     *)
(* run (Compile, Optimize) and returned.                                   *)
(***************************************************************************)
\* lengths of the runs of one byte in the long sources
RunLens == {1, 2, MEMORY_SIZE, MEMORY_SIZE + 1}
\* where the data pointer is put before the run: cell 0 or cell MEMORY_SIZE - 1
Prefixes == {<<>>, <<"<", ".">>}

MoveSources ==
    {p \o Rep(b, n) : p \in Prefixes, b \in {">", "<"}, n \in RunLens}

\* cell 0 is set to c by c '+', "><" folds to Move(0), then a run of '+' or
\* '-' folds to one IncValue
CellValues == {0, 1, 127, 128, 255}
IncLens == {1, 127, 128, 129, 255, 256, 257, 300}

IncSources ==
    {Rep("+", c) \o <<">", "<">> \o Rep(b, n) :
        c \in CellValues, b \in {"+", "-"}, n \in IncLens}

\* runs that sum to +256, kept apart by "><"
SumSources ==
    {Rep("+", c) \o <<">", "<">> \o Rep("+", n) \o <<">", "<">>
        \o Rep("+", 256 - n) : c \in CellValues, n \in {1, 100, 128, 200}}
    \cup
    {Rep("+", c) \o <<">", "<">> \o Rep("+", 300) \o <<">", "<">>
        \o Rep("-", 44) : c \in CellValues}

RunSources == NamedSources \cup MoveSources \cup IncSources \cup SumSources

InitRunOn(S) ==
    /\ src \in S
    /\ idx = Len(src)
    /\ \E st \in {Compile(src)} :
          /\ st.status = "returned"
          /\ scan = Returned(st)
          /\ tokens = Optimize(st.calls[1])
    /\ pc = "run"
    /\ vm = [NewInterpreter EXCEPT !.status = "running"]
    /\ stream = <<>>

InitRun == InitRunOn(RunSources) /\ ref = NewInterpreter

NextRun ==
    \/ RunOutput
    \/ RunInput
    \/ RunMove
    \/ RunIncValue
    \/ RunLoop
    \/ RunReturn

SpecRun == InitRun /\ [][NextRun]_vars

(***************************************************************************)
(* The optimized run against the unoptimized one: when interpreter.run on  *)
(* optimize's result has ended, a fresh Interpreter runs compile's result  *)
(* on the same standard input (compile's result is moved into optimize, so *)
(* it is compiled again from the source).                                  *)
(***************************************************************************)
EquivSources ==
    NamedSources \cup SeqsUpTo(FullBytes \ {"\n", "x"}, MaxFull)
        \cup {<<"<", ".">> \o Rep(">", MEMORY_SIZE + 1) \o <<"+">>}

InitEquiv ==
    /\ InitRunOn(EquivSources)
    /\ ref = [NewInterpreter EXCEPT !.status = "running"]

Ended(m) == m.status \in {"done", "exit1", "panic"}

\* one step of every run of P that has not ended; a run is an interpreter
\* state m with what standard input has delivered, str
StepAll(tree, P) ==
    UNION { IF p.m.status # "running" THEN {p}
            ELSE IF ~AtEnd(tree, p.m) /\ Kind(Current(tree, p.m)) = "Input" THEN
                { [m |-> ExecInput(p.m, item),
                   str |-> DeliveredTo(p.str, p.m.rd, item)]
                  : item \in ItemsFor(p.str, p.m.rd) }
            ELSE { [m |-> n, str |-> p.str] : n \in Step(tree, p.m, <<"eof">>) }
          : p \in P }

\* n steps of the runs of P, one after the other; n is halved only to keep the
\* evaluation shallow
RECURSIVE StepsAll(_, _, _)
StepsAll(tree, n, P) ==
    IF n <= 0 THEN P
    ELSE IF n = 1 THEN StepAll(tree, P)
    ELSE LET h == n \div 2
             left == StepsAll(tree, h, P)
         IN  IF \A p \in left : p.m.status # "running" THEN left
             ELSE StepsAll(tree, n - h, left)

\* the whole run of compile's result on the fresh interpreter, to its end or
\* as far as the model follows it
RefRun ==
    /\ Ended(vm)
    /\ ref.status = "running"
    /\ ref.steps = 0
    /\ \E tree \in {Compile(src).calls[1]} :
          \E p \in StepsAll(tree, MaxRefSteps, {[m |-> ref, str |-> stream]}) :
              /\ ref' = p.m
              /\ stream' = p.str
    /\ UNCHANGED <<src, pc, idx, scan, tokens, vm>>

NextEquiv == NextRun \/ RefRun

SpecEquiv == InitEquiv /\ [][NextEquiv]_vars


(***************************************************************************)
(* What the claims are measured against: the source text itself            *)
(***************************************************************************)
Min(S) == CHOOSE x \in S : \A y \in S : x <= y
Max(S) == CHOOSE x \in S : \A y \in S : x >= y

\* line of byte i: 1 + the newline bytes before it
TrueLine(s, i) == 1 + Cardinality({j \in 1..(i - 1) : s[j] = "\n"})

\* position of byte i in its line: 1 + the bytes between the preceding newline
\* (or the start) and it
TruePosition(s, i) ==
    i - Max({0} \cup {j \in 1..(i - 1) : s[j] = "\n"})

\* '[' minus ']' among the first i bytes
Depth(s, i) ==
    Cardinality({j \in 1..i : s[j] = "["}) - Cardinality({j \in 1..i : s[j] = "]"})

Balanced(s) ==
    /\ \A i \in 0..Len(s) : Depth(s, i) >= 0
    /\ Depth(s, Len(s)) = 0

\* the ']' bytes met at nesting level 0
UnmatchedCloses(s) == {i \in 1..Len(s) : Depth(s, i) < 0}

\* the '[' bytes no later ']' closes
StillOpen(s) ==
    {i \in 1..Len(s) :
        s[i] = "[" /\ \A j \in i..Len(s) : Depth(s, j) >= Depth(s, i)}

CompileError(kind) == scan.status = "exit1" /\ scan.diag[1] = kind

Reported == <<scan.diag[2], scan.diag[3]>>

\* C5: an unmatched ']' is reported with its own line and position in the line
C5_ClosePositionIsTrue ==
    CompileError("closed") =>
        Reported = <<TrueLine(src, idx), TruePosition(src, idx)>>

\* C6: an unmatched '[' is reported with the line and position in the line of
\* an unmatched '[' of the source
C6_OpenPositionIsTrue ==
    CompileError("opened") =>
        \E i \in StillOpen(src) :
            Reported = <<TrueLine(src, i), TruePosition(src, i)>>

\* the (line, position) pushed for the '[' at byte i: '[' entries are pushed in
\* source order and none is popped before the end of input
OpenEntries(stack) ==
    LET IsOpen(e) == e[1] = "["
    IN  SelectSeq(stack, IsOpen)

RecordedFor(stack, s, i) ==
    LET e == OpenEntries(stack)[Cardinality({j \in 1..i : s[j] = "["})]
    IN  <<e[2], e[3]>>

EndsOpen ==
    /\ pc = "compile"
    /\ scan'.status = "exit1"
    /\ scan'.diag[1] = "opened"
    /\ Cardinality(StillOpen(src)) >= 2

\* C7 as stated: with several '[' open at the end of input, the position
\* reported is the one recorded for the oldest (outermost) of them
C7_OldestOpenReported ==
    [][EndsOpen =>
        <<scan'.diag[2], scan'.diag[3]>>
            = RecordedFor(scan.stack, src, Min(StillOpen(src)))]_vars

\* C7 amended: with several '[' open at the end of input, the position
\* reported is the one recorded for the most recently opened (innermost) of
\* them, whatever balanced pairs were recorded after it
C7_InnermostOpenReported ==
    [][EndsOpen =>
        <<scan'.diag[2], scan'.diag[3]>>
            = RecordedFor(scan.stack, src, Max(StillOpen(src)))]_vars

\* several '[' open on different lines, a balanced pair after the innermost
C7_Witness ==
    /\ CompileError("opened")
    /\ Cardinality(StillOpen(src)) >= 2
    /\ TrueLine(src, Min(StillOpen(src))) # TrueLine(src, Max(StillOpen(src)))
    /\ scan.diag[2] = TrueLine(src, Max(StillOpen(src)))
    /\ \E j \in 1..Len(src) : j > Max(StillOpen(src)) /\ src[j] = "]"

\* C8: compile signals an error exactly when the brackets are unbalanced: a
\* ']' at level 0 at once (the scan stands on it), an open '[' at the end of
\* input, nothing else; it never panics
C8_ErrorIffUnbalanced ==
    /\ scan.status # "panic"
    /\ scan.status = "scanning" =>
          /\ pc = "compile"
          /\ idx <= Len(src)
          /\ \A i \in 0..idx : Depth(src, i) >= 0
    /\ scan.status = "returned" => Balanced(src) /\ idx = Len(src)
    /\ CompileError("closed") =>
          /\ ~Balanced(src)
          /\ idx = Min(UnmatchedCloses(src))
    /\ CompileError("opened") =>
          /\ ~Balanced(src)
          /\ idx = Len(src)
          /\ UnmatchedCloses(src) = {}
          /\ Depth(src, Len(src)) > 0
    /\ scan.status = "exit1" => scan.diag[1] \in {"closed", "opened"}

\* a ']' at level 0 stopped the scan with bytes left unscanned
C8_Witness ==
    /\ CompileError("closed")
    /\ idx < Len(src)
    /\ pc = "exit1"

\* the reference parser: the eight instruction bytes, loops by bracket matching
InstrBytes == {">", "<", "+", "-", ".", ",", "[", "]"}

InstrOnly(s) ==
    LET IsInstr(b) == b \in InstrBytes
    IN  SelectSeq(s, IsInstr)

RefToken(b) ==
    IF b = ">" THEN <<"Move", 1>>
    ELSE IF b = "<" THEN <<"Move", -1>>
    ELSE IF b = "+" THEN <<"IncValue", 1>>
    ELSE IF b = "-" THEN <<"IncValue", -1>>
    ELSE IF b = "." THEN <<"Output">>
    ELSE <<"Input">>

RECURSIVE RefParse(_)
RefParse(s) ==
    IF s = <<>> THEN <<>>
    ELSE IF s[1] = "[" THEN
        LET m == Min({j \in 2..Len(s) : Depth(s, j) = 0})
        IN  << <<"Loop", RefParse(SubSeq(s, 2, m - 1))>> >>
                \o RefParse(SubSeq(s, m + 1, Len(s)))
    ELSE <<RefToken(s[1])>> \o RefParse(Tail(s))

\* C9: for a balanced source compile returns the reference parse of the
\* source restricted to the eight instruction bytes
C9_TreeIsReferenceParse ==
    pc = "optimize" => tokens = RefParse(InstrOnly(src))

\* a returned tree with a Loop that has a body, from a source with other bytes
C9_Witness ==
    /\ pc = "optimize"
    /\ \E i \in 1..Len(src) : src[i] \notin InstrBytes
    /\ \E k \in 1..Len(tokens) :
          Kind(tokens[k]) = "Loop" /\ tokens[k][2] # <<>>

\* C10: optimize applied to its own result returns it unchanged
C10_OptimizeIdempotent ==
    vm.status # "idle" => Optimize(tokens) = tokens

\* optimize folded a run inside a loop body
C10_Witness ==
    /\ vm.status # "idle"
    /\ \E k \in 1..Len(tokens) :
          /\ Kind(tokens[k]) = "Loop"
          /\ tokens[k][2] = <<IncValue(2)>>


(***************************************************************************)
(* The interpreter's arithmetic                                            *)
(***************************************************************************)
AtToken(kind) ==
    pc = "run" /\ ~AtEnd(tokens, vm) /\ Kind(Current(tokens, vm)) = kind

\* C1: from a pointer p in [0, MEMORY_SIZE), Move(delta) leaves the pointer
\* at (p + delta) mod MEMORY_SIZE, whatever the size of delta
C1_MoveIsModular ==
    [][(AtToken("Move") /\ InBounds(vm.dp)) =>
        /\ vm'.status = "running"
        /\ vm'.dp = (vm.dp + Current(tokens, vm)[2]) % MEMORY_SIZE]_vars

C3_RunsAgree ==
    (Ended(vm) /\ Ended(ref)) =>
        /\ vm.status = ref.status
        /\ vm.out = ref.out
        /\ vm.memory = ref.memory
        /\ vm.dp = ref.dp

RECURSIVE SumDeltas(_, _)
SumDeltas(toks, from) ==
    IF from > Len(toks) THEN 0
    ELSE (IF Kind(toks[from]) = "IncValue" THEN toks[from][2] ELSE 0)
            + SumDeltas(toks, from + 1)

\* a program that only adds to cell 0: its first token, then IncValue
\* instructions (kept apart by Move(0)) whose deltas sum to +256
AddsUpTo256 ==
    /\ vm.status = "done"
    /\ Len(tokens) >= 2
    /\ \A k \in 1..Len(tokens) :
          tokens[k] = <<"Move", 0>> \/ Kind(tokens[k]) = "IncValue"
    /\ SumDeltas(tokens, 2) = 256

FirstValue ==
    IF Kind(tokens[1]) = "IncValue" THEN tokens[1][2] % 256 ELSE 0

\* C4: IncValue(delta) leaves (c + delta) mod 256 in the current cell, whatever
\* the size of delta, so IncValue instructions summing to +256 leave it as it was
C4_IncValueIsModular ==
    /\ [][(AtToken("IncValue") /\ InBounds(vm.dp)) =>
            /\ vm'.status = "running"
            /\ Cell(vm'.memory, vm.dp)
                  = (Cell(vm.memory, vm.dp) + Current(tokens, vm)[2]) % 256]_vars
    /\ [](AddsUpTo256 => Cell(vm.memory, 0) = FirstValue)

\* a nonzero cell came back to its value through a delta beyond one byte
C4_Witness ==
    /\ AddsUpTo256
    /\ FirstValue > 0
    /\ Cell(vm.memory, 0) = FirstValue
    /\ \E k \in 2..Len(tokens) :
          Kind(tokens[k]) = "IncValue" /\ tokens[k][2] > 255

(***************************************************************************)
(* optimize alone (main.rs:173-196 as called at main.rs:234): main between *)
(* compile's return and optimize's, for every balanced source over the     *)
(* eight instruction bytes up to MaxOpt bytes.                             *)
(***************************************************************************)
\* longest source handed to compile for optimize alone
MaxOpt == 4

OptSources ==
    {s \in SeqsUpTo(InstrBytes, MaxOpt) : Balanced(s)}

InitOpt ==
    /\ src \in OptSources
    /\ idx = Len(src)
    /\ \E st \in {Compile(src)} :
          /\ st.status = "returned"
          /\ scan = Returned(st)
          /\ tokens = st.calls[1]
    /\ pc = "optimize"
    /\ vm = NewInterpreter
    /\ stream = <<>>
    /\ ref = NewInterpreter

NextOpt == OptimizeTokens

SpecOpt == InitOpt /\ [][NextOpt]_vars

(***************************************************************************)
(* What optimize is measured against: folding by maximal runs              *)
(***************************************************************************)
Arith == {"Move", "IncValue"}

\* the last index of the maximal run of tokens of toks[1]'s kind that starts
\* at toks[1]
RunEnd(toks) ==
    Min({j \in 1..Len(toks) : Kind(toks[j]) # Kind(toks[1])}
            \cup {Len(toks) + 1}) - 1

RECURSIVE SumRun(_, _)
SumRun(toks, k) == IF k = 0 THEN 0 ELSE toks[k][2] + SumRun(toks, k - 1)

\* every maximal run of Move (of IncValue) siblings replaced by one token with
\* the sum of its deltas, at every nesting level; everything else kept
RECURSIVE RefFold(_)
RefFold(toks) ==
    IF toks = <<>> THEN <<>>
    ELSE IF Kind(toks[1]) = "Loop" THEN
        << <<"Loop", RefFold(toks[1][2])>> >> \o RefFold(Tail(toks))
    ELSE IF Kind(toks[1]) \in Arith THEN
        LET k == RunEnd(toks)
        IN  << <<Kind(toks[1]), SumRun(toks, k)>> >>
                \o RefFold(SubSeq(toks, k + 1, Len(toks)))
    ELSE <<toks[1]>> \o RefFold(Tail(toks))

\* the Output, Input and Loop instructions of a tree, in order, at every level
RECURSIVE Skeleton(_)
Skeleton(toks) ==
    IF toks = <<>> THEN <<>>
    ELSE IF Kind(toks[1]) = "Loop" THEN
        << <<"Loop", Skeleton(toks[1][2])>> >> \o Skeleton(Tail(toks))
    ELSE IF Kind(toks[1]) \in Arith THEN Skeleton(Tail(toks))
    ELSE <<toks[1]>> \o Skeleton(Tail(toks))

\* C11: optimize keeps the Output, Input and Loop instructions in order and
\* number at every level, and changes the tree only by replacing each maximal
\* run of adjacent Move (of adjacent IncValue) siblings by one instruction
\* with the sum of the run's deltas
C11_OnlyRunsAreFolded ==
    [][pc = "optimize" =>
        /\ tokens' = RefFold(tokens)
        /\ Skeleton(tokens') = Skeleton(tokens)]_vars

\* optimize has folded a run and left two instructions of one arithmetic kind
\* on either side of an Output, Input or Loop
C11_Witness ==
    /\ pc = "run"
    /\ vm.steps = 0
    /\ Len(tokens) < Len(RefParse(InstrOnly(src)))
    /\ \E k \in 2..(Len(tokens) - 1) :
          /\ Kind(tokens[k]) \notin Arith
          /\ Kind(tokens[k - 1]) \in Arith
          /\ Kind(tokens[k + 1]) = Kind(tokens[k - 1])

(***************************************************************************)
(* interpreter.run on programs with one loop: what is before the loop sets *)
(* the cell it is entered on, the body is any short sequence of            *)
(* instructions (or a nested loop).                                        *)
(***************************************************************************)
\* longest loop body
MaxBody == 2

LoopEntries == {<<>>, <<"+">>, <<",">>}

LoopBodies ==
    SeqsUpTo({"-", ">", ".", ","}, MaxBody) \cup {<<"[", "-", "]">>}

LoopSources ==
    NamedSources \cup
    {e \o <<"[">> \o b \o <<"]">> \o s :
        e \in LoopEntries, b \in LoopBodies, s \in {<<>>, <<".">>}}

InitLoop == InitRunOn(LoopSources) /\ ref = NewInterpreter

NextLoop ==
    \/ RunOutput
    \/ RunInput
    \/ RunMove
    \/ RunIncValue
    \/ RunLoop
    \/ RunReturn

SpecLoop == InitLoop /\ [][NextLoop]_vars

\* the run call at the top of `frames` moves to its next token
NextToken(frames) == [frames EXCEPT ![Len(frames)] = @ + 1]

\* the while test of a Loop: the cell under the pointer as it is now decides
\* between a pass through the body and the instruction after the loop
TestDecides ==
    (AtToken("Loop") /\ InBounds(vm.dp)) =>
        /\ vm'.status = "running"
        /\ vm'.memory = vm.memory /\ vm'.dp = vm.dp /\ vm'.out = vm.out
        /\ vm'.frames = IF Cell(vm.memory, vm.dp) = 0 THEN NextToken(vm.frames)
                        ELSE Append(vm.frames, 1)

\* inside a body, an instruction that does not abort the run is followed by
\* the next instruction of the body, whatever the cell now holds
PassRunsInFull ==
    (/\ pc = "run" /\ Len(vm.frames) > 1 /\ ~AtEnd(tokens, vm)
     /\ Kind(Current(tokens, vm)) # "Loop" /\ vm'.status = "running") =>
        vm'.frames = NextToken(vm.frames)

\* the end of a pass leads back to the while test of the Loop, tape and pointer
\* as the pass left them
PassEndsAtTest ==
    (pc = "run" /\ Len(vm.frames) > 1 /\ AtEnd(tokens, vm)) =>
        /\ vm'.status = "running"
        /\ vm'.frames = Front(vm.frames)
        /\ Kind(Current(tokens, vm')) = "Loop"
        /\ vm'.memory = vm.memory /\ vm'.dp = vm.dp /\ vm'.out = vm.out

\* "+[>]" and "+[-.]"
MovingLoop == <<"+", "[", ">", "]">>
ZeroMidway == <<"+", "[", "-", ".", "]">>

\* C12: a Loop tests the cell under the current pointer only before each pass
\* through its body: a zero cell skips the body or ends the loop, a nonzero
\* cell starts a pass, and a started pass runs every instruction of the body
\* even if the cell becomes 0 midway
C12_LoopTestsBeforeEachPass ==
    /\ [][TestDecides /\ PassRunsInFull /\ PassEndsAtTest]_vars
    /\ [](src = MovingLoop =>
             /\ vm.steps <= 6
             /\ vm.steps = 6 => (vm.status = "done" /\ vm.dp = 1))
    /\ []((src = ZeroMidway /\ vm.status = "done") => vm.out = <<0>>)

\* the cell became 0 in the middle of a pass and the rest of the body ran: the
\* Output after the '-' wrote the 0, and the loop ended at the next test
C12_Witness ==
    /\ src = ZeroMidway
    /\ vm.status = "done"
    /\ vm.out = <<0>>
    /\ vm.steps = 7

(***************************************************************************)
(* The pipeline when it is not held up: main is one thread and every step  *)
(* of it that can be taken is taken (a read of standard input returns with *)
(* a byte, end of file or an error).                                       *)
(***************************************************************************)
\* the four programs of NamedSources, from the source text on; these are the
\* steps of main their compilation and run are made of
InitNamed ==
    /\ src \in NamedSources
    /\ pc = "compile"
    /\ idx = 0
    /\ scan = InitScan
    /\ tokens = <<>>
    /\ vm = NewInterpreter
    /\ stream = <<>>
    /\ ref = NewInterpreter

NextNamed ==
    \/ ScanSimple
    \/ ScanOpen
    \/ ScanCloseLoop
    \/ ScanEndReturn
    \/ OptimizeTokens
    \/ RunOutput
    \/ RunInput
    \/ RunMove
    \/ RunIncValue
    \/ RunLoop
    \/ RunReturn

\* every step of NextNamed but optimize's
ScanOrRun ==
    \/ ScanSimple
    \/ ScanOpen
    \/ ScanCloseLoop
    \/ ScanEndReturn
    \/ RunOutput
    \/ RunInput
    \/ RunMove
    \/ RunIncValue
    \/ RunLoop
    \/ RunReturn

\* optimize returns and run is entered: under [][NextNamed]_vars these are the
\* OptimizeTokens steps, which are possible exactly when pc = "optimize"
OptimizeReturns == pc = "optimize" /\ pc' = "run"

SpecLive ==
    InitNamed /\ [][NextNamed]_vars /\ WF_vars(ScanOrRun) /\ WF_pc(OptimizeReturns)

\* "+++." and "++++++++[>++++++++<-]>+."
ThreePlus == <<"+", "+", "+", ".">>
LetterA ==
    Rep("+", 8) \o <<"[", ">">> \o Rep("+", 8) \o <<"<", "-", "]", ">", "+", ".">>

\* one step of run: an Output appends the current cell's value to standard
\* output and changes neither tape nor pointer, nothing else writes
OutputAppendsCell ==
    pc = "run" =>
        IF AtToken("Output") /\ InBounds(vm.dp) THEN
            /\ vm'.out = Append(vm.out, Cell(vm.memory, vm.dp))
            /\ vm'.memory = vm.memory
            /\ vm'.dp = vm.dp
        ELSE vm'.out = vm.out

\* C13: standard output is the sequence of the current cell's values at the
\* executed Output instructions, in order, nothing else; "+++." ends having
\* written 3 and nothing else, "++++++++[>++++++++<-]>+." ends having written
\* 65 and nothing else
C13_OutputIsCellValues ==
    /\ [][OutputAppendsCell]_vars
    /\ [](src = ThreePlus => vm.out \in {<<>>, <<3>>})
    /\ [](src = LetterA => vm.out \in {<<>>, <<65>>})
    /\ (src = ThreePlus) ~> (pc = "done" /\ vm.out = <<3>>)
    /\ (src = LetterA) ~> (pc = "done" /\ vm.out = <<65>>)

\* the loop of "++++++++[>++++++++<-]>+." ran its 8 passes and the one Output
\* wrote 65
C13_Witness ==
    /\ src = LetterA
    /\ pc = "done"
    /\ vm.out = <<65>>
    /\ Cell(vm.memory, 0) = 0
    /\ vm.dp = 1

\* the sum of the deltas of the Move tokens of toks
RECURSIVE NetMove(_, _)
NetMove(toks, from) ==
    IF from > Len(toks) THEN 0
    ELSE (IF Kind(toks[from]) = "Move" THEN toks[from][2] ELSE 0)
            + NetMove(toks, from + 1)

\* a program that only moves the pointer (and writes cells out), by
\* MEMORY_SIZE in all, has run from cell 0 to its end
MovedByTapeSize ==
    /\ Ended(vm)
    /\ \A k \in 1..Len(tokens) : Kind(tokens[k]) \in {"Move", "Output"}
    /\ NetMove(tokens, 1) = MEMORY_SIZE

\* C14: Move instructions whose deltas sum to +MEMORY_SIZE, one or several,
\* bring the pointer back to where it started
C14_NetTapeSizeReturns ==
    MovedByTapeSize => (vm.status = "done" /\ vm.dp = 0)

\* "+[]" with any bytes that are not instructions around its three
SpinSource == InstrOnly(src) = <<"+", "[", "]">>

\* the two places the run of <<IncValue(1), Loop(<<>>)>> is at once the cell
\* is 1: the while test, and the end of the empty body
Spinning ==
    /\ vm.status = "running"
    /\ vm.memory = Store(<<>>, 0, 1)
    /\ vm.dp = 0
    /\ vm.out = <<>>
    /\ vm.frames \in {<<2>>, <<2, 1>>}

\* C15: "+[]" is compiled without an error and its run never ends: once the
\* cell is 1 every step leads from the while test into the body and from the
\* body back to the test, with the cell still 1, and no error is reported
C15_SpinNeverEnds ==
    /\ [](SpinSource =>
             /\ scan.status \in {"scanning", "returned"}
             /\ pc \in {"compile", "optimize", "run"}
             /\ (pc = "run" /\ vm.steps >= 1) => Spinning)
    /\ [][(SpinSource /\ Spinning) =>
             /\ Spinning'
             /\ vm'.frames # vm.frames
             /\ pc' = "run"]_vars

\* the run of "+[]" is still in its loop after every step the model follows
C15_Witness ==
    /\ src = <<"+", "[", "]">>
    /\ pc = "run"
    /\ Spinning
    /\ vm.steps = MaxSteps

(***************************************************************************)
(* Standard input                                                          *)
(***************************************************************************)
\* what the read of the Input step vm -> vm' got: the item standard input
\* delivered at that position, end of file past the last item
ItemRead ==
    IF vm.rd < Len(stream') THEN stream'[vm.rd + 1] ELSE <<"eof">>

\* the tape but for the cell under the pointer
OtherCells(memory, dp) == [j \in DOMAIN memory \ {dp} |-> memory[j]]

\* an Input step that read a byte: the byte is in the cell under the pointer,
\* one read was made, and nothing else changed
InputStoresByte ==
    (AtToken("Input") /\ InBounds(vm.dp) /\ ItemRead[1] = "byte") =>
        /\ vm'.status = "running"
        /\ vm'.rd = vm.rd + 1
        /\ Cell(vm'.memory, vm.dp) = ItemRead[2]
        /\ OtherCells(vm'.memory, vm.dp) = OtherCells(vm.memory, vm.dp)
        /\ vm'.dp = vm.dp
        /\ vm'.out = vm.out
        /\ vm'.frames = NextToken(vm.frames)

\* C16: an Input instruction takes one byte from standard input and stores it
\* in the cell under the pointer, all else unchanged; "," on the single byte 5
\* ends with 5 in cell 0 and no output
C16_InputStoresOneByte ==
    /\ [][InputStoresByte]_vars
    /\ []((src = <<",">> /\ pc = "done" /\ stream = << <<"byte", 5>> >>) =>
             /\ vm.memory = Store(<<>>, 0, 5)
             /\ vm.out = <<>>
             /\ vm.dp = 0
             /\ vm.rd = 1)

\* a byte was read into a cell other than cell 0, after an earlier read
C16_Witness ==
    /\ pc = "done"
    /\ src = <<",", ">", ",">>
    /\ stream = << <<"byte", 5>>, <<"byte", 255>> >>
    /\ vm.memory = Store(Store(<<>>, 0, 5), 1, 255)
    /\ vm.rd = 2

\* an Input step whose flush or read failed: the process exits with code 1 at
\* that instruction, after the one read, the cell and all else as they were
FailedReadExits ==
    (AtToken("Input") /\ ItemRead = <<"err">>) =>
        /\ vm'.status = "exit1"
        /\ pc' = "exit1"
        /\ vm'.rd = vm.rd + 1
        /\ vm'.memory = vm.memory
        /\ vm'.dp = vm.dp
        /\ vm'.out = vm.out
        /\ vm'.frames = vm.frames

\* C17: a failed flush-and-read of an Input instruction ends the run at once
\* with exit code 1: the cell is not modified, the read is not tried again,
\* and no instruction is executed afterwards, at any nesting level
C17_FailedReadIsFatal ==
    /\ [][FailedReadExits]_vars
    /\ [][pc # "exit1"]_vars
    /\ [](pc = "exit1" =>
             /\ vm.status = "exit1"
             /\ vm.rd >= 1 /\ vm.rd <= Len(stream)
             /\ stream[vm.rd] = <<"err">>
             /\ ~AtEnd(tokens, vm)
             /\ Kind(Current(tokens, vm)) = "Input")

\* the second read, inside a loop that the first read's byte entered, failed:
\* the run stopped inside the body with the cell as the first read left it
C17_Witness ==
    /\ pc = "exit1"
    /\ Len(vm.frames) > 1
    /\ stream = << <<"byte", 5>>, <<"err">> >>
    /\ vm.memory = Store(<<>>, 0, 5)
    /\ vm.rd = 2

(***************************************************************************)
(* Zero deltas in optimize                                                 *)
(***************************************************************************)
\* toks is one run: not empty, all of one arithmetic kind
IsRun(toks, kind) ==
    toks # <<>> /\ \A k \in 1..Len(toks) : Kind(toks[k]) = kind

Sum(toks) == SumRun(toks, Len(toks))

\* the tokens of a tree, counted at every level
RECURSIVE Size(_)
Size(toks) ==
    IF toks = <<>> THEN 0
    ELSE 1 + (IF Kind(toks[1]) = "Loop" THEN Size(toks[1][2]) ELSE 0)
           + Size(Tail(toks))

\* the maximal runs and the other tokens of a tree, counted at every level
RECURSIVE Groups(_)
Groups(toks) ==
    IF toks = <<>> THEN 0
    ELSE IF Kind(toks[1]) = "Loop" THEN
        1 + Groups(toks[1][2]) + Groups(Tail(toks))
    ELSE IF Kind(toks[1]) \in Arith THEN
        1 + Groups(SubSeq(toks, RunEnd(toks) + 1, Len(toks)))
    ELSE 1 + Groups(Tail(toks))

\* a whole run becomes one instruction with its sum, zero or not, also when a
\* prefix of the run sums to zero
RunIsOneToken ==
    \A kind \in Arith :
        IsRun(tokens, kind) => tokens' = << <<kind, Sum(tokens)>> >>

\* a run that sums to zero between two runs of the other kind stays between
\* them as one zero instruction
ZeroSeparates ==
    \A i \in 1..Len(tokens), j \in 1..Len(tokens) :
        \A kind \in Arith, other \in Arith :
            LET a == SubSeq(tokens, 1, i)
                b == SubSeq(tokens, i + 1, j)
                c == SubSeq(tokens, j + 1, Len(tokens))
            IN  (/\ i < j /\ j < Len(tokens) /\ kind # other
                 /\ IsRun(a, kind) /\ IsRun(b, other) /\ IsRun(c, kind)
                 /\ Sum(b) = 0) =>
                    tokens' = << <<kind, Sum(a)>>, <<other, 0>>, <<kind, Sum(c)>> >>

\* C18: optimize removes no instruction whose folded delta is zero: a run
\* summing to 0 becomes exactly one IncValue(0) or Move(0) that stays in the
\* tree, folds with a following instruction of its kind and keeps the
\* instructions of the other kind on its two sides apart
C18_ZeroDeltaIsKept ==
    [][pc = "optimize" =>
        /\ Size(tokens') = Groups(tokens)
        /\ RunIsOneToken
        /\ ZeroSeparates]_vars

\* ">+-<": the IncValue(0) of "+-" is in the tree, between two Moves that were
\* not folded into one
C18_Witness ==
    /\ pc = "run"
    /\ vm.steps = 0
    /\ src = <<">", "+", "-", "<">>
    /\ tokens = <<Move(1), IncValue(0), Move(-1)>>

(***************************************************************************)
(* The position stack of compile                                           *)
(***************************************************************************)
\* '[' entries minus ']' entries among the first k entries of the stack
StackDepth(stack, k) ==
    Cardinality({j \in 1..k : stack[j][1] = "["})
        - Cardinality({j \in 1..k : stack[j][1] = "]"})

\* the stack read as a bracket string is a prefix of a balanced string with
\* `level` brackets open
StackMatchesLevel(stack, level) ==
    /\ \A k \in 1..Len(stack) : stack[k][1] \in {"[", "]"}
    /\ \A k \in 0..Len(stack) : StackDepth(stack, k) >= 0
    /\ StackDepth(stack, Len(stack)) = level

\* C19: while compile scans, the position stack is a prefix of a balanced
\* bracket string whose unmatched '[' entries are as many as the nesting
\* level, so at the end of input at level > 0 search_extra_loop returns the
\* entry of a '[' and reaches neither of its panics
C19_StackMatchesLevel ==
    /\ [](scan.status = "scanning" => StackMatchesLevel(scan.stack, Level(scan)))
    /\ [](scan.status # "panic" /\ pc # "panic")
    /\ [][(pc = "compile" /\ idx = Len(src) /\ Level(scan) > 0) =>
             /\ search_extra_loop(scan.stack).outcome = "return"
             /\ scan'.status = "exit1"
             /\ scan'.diag[1] = "opened"
             /\ StackMatchesLevel(scan'.stack, Level(scan) - 1)]_vars

\* the search skipped a balanced pair and returned the entry of a '[' with
\* another open '[' left under it
C19_Witness ==
    /\ CompileError("opened")
    /\ scan.stack # <<>>
    /\ Level(scan) >= 2
    /\ \E j \in 1..Len(src) : src[j] = "]"

\* an Input step whose read found standard input at end of file: 0 is stored
\* in the cell under the pointer and the run goes on with the next token
EofStoresZero ==
    (AtToken("Input") /\ InBounds(vm.dp) /\ ItemRead = <<"eof">>) =>
        /\ vm'.status = "running"
        /\ pc' = "run"
        /\ Cell(vm'.memory, vm.dp) = 0
        /\ OtherCells(vm'.memory, vm.dp) = OtherCells(vm.memory, vm.dp)
        /\ vm'.dp = vm.dp
        /\ vm'.out = vm.out
        /\ vm'.frames = NextToken(vm.frames)

\* C20: at end of file an Input instruction stores 0 in the current cell and
\* the run goes on; end of input is no error and does not end the program
C20_EofStoresZero ==
    /\ [][EofStoresZero]_vars
    /\ [](pc = "exit1" /\ scan.status = "returned" =>
             \E k \in 1..Len(stream) : stream[k] = <<"err">>)

\* "+,.": the cell held 1, the read met end of file, the Output after it ran
\* and wrote the 0
C20_Witness ==
    /\ src = <<"+", ",", ".">>
    /\ stream = << <<"eof">> >>
    /\ pc = "done"
    /\ vm.out = <<0>>
    /\ vm.memory = <<>>

=============================================================================
